---- MODULE Spec2Model ----
(***************************************************************************)
(* The cross-process repository pool of src/repo_manager/__init__.py:      *)
(* LRURepoPoolSafe (has / get / evict / construction) over FileDB (the     *)
(* persisted index, one flock-protected JSON file) and FileLock (one       *)
(* flock-protected lock file per key).                                     *)
(*                                                                         *)
(* Worker processes are the elements of Procs.  Each runs one pool         *)
(* operation at a time; pc[p] is its position in the code.  A step is one  *)
(* blocking call (flock), one open(), one transaction body together with   *)
(* the _dump and unlock of its __exit__, or the start or the end of the    *)
(* clone.  A transaction body is atomic because the index is only read and *)
(* written under the exclusive index lock, taken in the step before.       *)
(*                                                                         *)
(* FileLock objects are taken as constructed with the mode their argument  *)
(* names (line 23-25); the protocol below is the one their __enter__ and   *)
(* __exit__ implement.                                                     *)
(***************************************************************************)
EXTENDS Integers, Sequences, FiniteSets, TLC

\* ---- bounds of the model ------------------------------------------------
NumProcs == 2      \* worker processes
NumKeys  == 3      \* distinct cache keys (digests)
MaxOps   == 5      \* pool operations started in one behaviour
MaxSize  == 2      \* LRURepoPoolSafe.max_size

Procs == 1..NumProcs
Keys  == 1..NumKeys
\* inode numbers of one key's lock file; 0 stands for "no file" / "no handle"
Inodes == 1..(NumProcs + 1)

VARIABLES
    lrucache,   \* persisted usage map: sequence of [key, n] in insertion order
    badcache,   \* persisted bad set
    dir,        \* dir[k]: state of the directory base/<k>
    lockFile,   \* lockFile[k]: inode linked at base/<k>.lock, 0 if none
    dbWriter,   \* process holding LOCK_EX on the index lock file, 0 if none
    dbReaders,  \* processes holding LOCK_SH on the index lock file
    pc,         \* pc[p]: position of process p
    key,        \* key[p]: key of the operation p is running
    fd,         \* fd[p]: inode p has open as per-key lock file, 0 if none
    held,       \* held[p]: p holds LOCK_EX on fd[p]
    mine,       \* mine[p]: the clone p is running created the directory
    res,        \* res[p]: outcome of p's last finished operation
    pre,        \* pre[p]: usage map p's running get loaded on its miss
    calls,      \* operations started so far
    nFetch,     \* nFetch[k]: clone_from invocations for k so far
    evicted,    \* evicted[k]: an evict(k) was called or k was auto-evicted
    okSince,    \* okSince[k]: a get(k) ended with a handle or None and no
                \* eviction of k has run since
    url,        \* url[p]: the locator p passes to has, get and evict, as a
                \* sequence of characters (empty: p passes keys)
    doc,        \* the JSON document in the index file as _dump wrote it, in
                \* a sequence that is empty while _dump has written none
    trx,        \* trx[p]: the usage map and the bad set the Transaction
                \* object of p holds in memory between its _load and its _dump
    fl          \* fl[p]: the FileLock p constructed last: the attributes
                \* set on it (self) and the mode it was asked for

vars == <<lrucache, badcache, dir, lockFile, dbWriter, dbReaders, pc, key,
          fd, held, mine, res, pre, calls, nFetch, evicted, okSince, url,
          doc, trx, fl>>

\* ---- the usage map (a Python dict: insertion ordered) --------------------
CacheKeys(c) == {c[i].key : i \in 1..Len(c)}

Count(c, k) ==
    IF k \in CacheKeys(c)
    THEN LET i == CHOOSE j \in 1..Len(c) : c[j].key = k IN c[i].n
    ELSE 0

\* trx.lrucache[key] += 1
Incr(c, k) ==
    [i \in 1..Len(c) |-> IF c[i].key = k
                         THEN [key |-> k, n |-> c[i].n + 1]
                         ELSE c[i]]

\* del trx.lrucache[key]
IsNot(k, e) == e.key # k
Del(c, k) == SelectSeq(c, LAMBDA e : IsNot(k, e))

\* trx.lrucache[key] = 1 for a key that is not in the dict
Put(c, k) == Append(c, [key |-> k, n |-> 1])

\* a pool that evicts the oldest entry whatever its counter
LeastUsedFirst(c) == c[1].key

\* min(trx.lrucache.items(), key=lambda x: x[1])[0]: the first entry, in
\* iteration order, among those with the least counter
LeastUsed(c) ==
    LET i == CHOOSE a \in 1..Len(c) :
                 \A b \in 1..Len(c) :
                     \/ c[a].n < c[b].n
                     \/ (c[a].n = c[b].n /\ a <= b)
    IN c[i].key

\* a pool that makes room as soon as it holds one key
AtCapacityEarly(c) == Len(c) >= 1

\* len(trx.lrucache) >= self.max_size
AtCapacity(c) == Len(c) >= MaxSize

\* has(): key in trx.lrucache or key in trx.badcache
Has(k) == k \in CacheKeys(lrucache) \/ k \in badcache

\* os.path.exists(repo_path)
DirExists(k) == dir[k] # "absent"

\* ---- initial state: an empty base directory, the pool constructed --------
PoolInit ==
    /\ lrucache = <<>>
    /\ badcache = {}
    /\ dir = [k \in Keys |-> "absent"]
    /\ lockFile = [k \in Keys |-> 0]
    /\ dbWriter = 0
    /\ dbReaders = {}
    /\ pc = [p \in Procs |-> "idle"]
    /\ key = [p \in Procs |-> 1]
    /\ fd = [p \in Procs |-> 0]
    /\ held = [p \in Procs |-> FALSE]
    /\ mine = [p \in Procs |-> FALSE]
    /\ res = [p \in Procs |-> "-"]
    /\ pre = [p \in Procs |-> <<>>]
    /\ calls = 0
    /\ nFetch = [k \in Keys |-> 0]
    /\ evicted = [k \in Keys |-> FALSE]
    /\ okSince = [k \in Keys |-> FALSE]
    /\ doc = <<>>
    /\ trx = [p \in Procs |-> [lrucache |-> <<>>, badcache |-> {}]]
    /\ fl = [p \in Procs |-> [self |-> {}, mode |-> "w"]]

\* the workers pass keys
Init == PoolInit /\ url = [p \in Procs |-> <<>>]


\* ---- helpers of the steps ------------------------------------------------
Goto(p, l) == pc' = [pc EXCEPT ![p] = l]

\* the operation of p ends: its FileLock objects are unlocked and dropped
Return(p, r) ==
    /\ pc' = [pc EXCEPT ![p] = "idle"]
    /\ res' = [res EXCEPT ![p] = r]
    /\ fd' = [fd EXCEPT ![p] = 0]
    /\ held' = [held EXCEPT ![p] = FALSE]
    /\ mine' = [mine EXCEPT ![p] = FALSE]
    /\ pre' = [pre EXCEPT ![p] = <<>>]

\* Repo(repo_path) raises when the path does not exist
OpenRepo(k) == IF DirExists(k) THEN "handle" ELSE "error"

\* get() returned a handle or None (the module-level get turns None into
\* NoRepoError); an exception of Repo() is neither
Answered(r) == r \in {"handle", "None"}

\* an inode number no open handle and no directory entry of key k refers to
InoFree(k, i) ==
    /\ lockFile[k] # i
    /\ \A q \in Procs : ~(key[q] = k /\ fd[q] = i)

FreshIno(k) ==
    CHOOSE i \in Inodes : InoFree(k, i) /\ \A j \in 1..(i - 1) : ~InoFree(k, j)

\* a lock that excludes nobody
FlockFreeAlways(p) == TRUE

\* flock(LOCK_EX) on the inode p has open succeeds when no other handle on
\* the same inode holds a lock
FlockFree(p) ==
    \A q \in Procs \ {p} : ~(held[q] /\ key[q] = key[p] /\ fd[q] = fd[p])

\* ---- calls ----------------------------------------------------------------
CallGet(p, k) ==
    /\ pc[p] = "idle"
    /\ calls < MaxOps
    /\ calls' = calls + 1
    /\ key' = [key EXCEPT ![p] = k]
    /\ res' = [res EXCEPT ![p] = "-"]
    /\ Goto(p, "g_lock1")
    /\ UNCHANGED <<fl, url, doc, trx, lrucache, badcache, dir, lockFile, dbWriter, dbReaders,
                   fd, held, mine, pre, nFetch, evicted, okSince>>

CallHas(p, k) ==
    /\ pc[p] = "idle"
    /\ calls < MaxOps
    /\ calls' = calls + 1
    /\ key' = [key EXCEPT ![p] = k]
    /\ res' = [res EXCEPT ![p] = "-"]
    /\ Goto(p, "h_lock")
    /\ UNCHANGED <<fl, url, doc, trx, lrucache, badcache, dir, lockFile, dbWriter, dbReaders,
                   fd, held, mine, pre, nFetch, evicted, okSince>>

CallEvict(p, k) ==
    /\ pc[p] = "idle"
    /\ calls < MaxOps
    /\ calls' = calls + 1
    /\ key' = [key EXCEPT ![p] = k]
    /\ res' = [res EXCEPT ![p] = "-"]
    /\ Goto(p, "e_open")
    /\ evicted' = [evicted EXCEPT ![k] = TRUE]
    /\ okSince' = [okSince EXCEPT ![k] = FALSE]
    /\ UNCHANGED <<fl, url, doc, trx, lrucache, badcache, dir, lockFile, dbWriter, dbReaders,
                   fd, held, mine, pre, nFetch>>

\* a worker (re)starts and constructs its pool object
CallInit(p) ==
    /\ pc[p] = "idle"
    /\ calls < MaxOps
    /\ calls' = calls + 1
    /\ res' = [res EXCEPT ![p] = "-"]
    /\ Goto(p, "i_lock")
    /\ UNCHANGED <<fl, url, doc, trx, lrucache, badcache, dir, lockFile, dbWriter, dbReaders,
                   key, fd, held, mine, pre, nFetch, evicted, okSince>>

\* ---- the index lock: FileDB.Transaction.__enter__ --------------------------
AfterLock(l) ==
    CASE l = "g_lock1" -> "g_trx1"
      [] l = "g_lock2" -> "g_trx2"
      [] l = "g_lock3ok" -> "g_trx3ok"
      [] l = "g_lock3bad" -> "g_trx3bad"
      [] l = "e_lock" -> "e_trx"
      [] l = "i_lock" -> "i_trx"

\* file_db.lock(): flock(LOCK_EX) on the index lock file, then _load
AcquireWrite(p) ==
    /\ pc[p] \in {"g_lock1", "g_lock2", "g_lock3ok", "g_lock3bad", "e_lock", "i_lock"}
    /\ dbWriter = 0
    /\ dbReaders = {}
    /\ dbWriter' = p
    /\ Goto(p, AfterLock(pc[p]))
    /\ UNCHANGED <<fl, url, doc, trx, lrucache, badcache, dir, lockFile, dbReaders, key, fd,
                   held, mine, res, pre, calls, nFetch, evicted, okSince>>

\* a shared lock granted while a writer holds the index lock
AcquireReadAnyway(p) ==
    /\ pc[p] = "h_lock"
    /\ dbReaders' = dbReaders \cup {p}
    /\ Goto(p, "h_trx")
    /\ UNCHANGED <<fl, url, doc, trx, lrucache, badcache, dir, lockFile, dbWriter, key, fd,
                   held, mine, res, pre, calls, nFetch, evicted, okSince>>

\* file_db.lock_read(): flock(LOCK_SH) on the index lock file, then _load
AcquireRead(p) ==
    /\ pc[p] = "h_lock"
    /\ dbWriter = 0
    /\ dbReaders' = dbReaders \cup {p}
    /\ Goto(p, "h_trx")
    /\ UNCHANGED <<fl, url, doc, trx, lrucache, badcache, dir, lockFile, dbWriter, key, fd,
                   held, mine, res, pre, calls, nFetch, evicted, okSince>>

\* ---- the per-key lock: FileLock(repo_lock) ----------------------------------
\* open(repo_lock, "wb") creates the file when the path does not exist
OpenLock(p) ==
    LET k == key[p] IN
    /\ pc[p] \in {"g_open", "e_open"}
    /\ lockFile' = IF lockFile[k] = 0
                   THEN [lockFile EXCEPT ![k] = FreshIno(k)]
                   ELSE lockFile
    /\ fd' = [fd EXCEPT ![p] = lockFile'[k]]
    /\ Goto(p, IF pc[p] = "g_open" THEN "g_flock" ELSE "e_flock")
    /\ UNCHANGED <<fl, url, doc, trx, lrucache, badcache, dir, dbWriter, dbReaders, key, held,
                   mine, res, pre, calls, nFetch, evicted, okSince>>

\* flock(self.file, LOCK_EX) blocks until the inode is unlocked
FlockKey(p) ==
    /\ pc[p] \in {"g_flock", "e_flock"}
    /\ FlockFree(p)
    /\ held' = [held EXCEPT ![p] = TRUE]
    /\ Goto(p, IF pc[p] = "g_flock" THEN "g_check" ELSE "e_lock")
    /\ UNCHANGED <<fl, url, doc, trx, lrucache, badcache, dir, lockFile, dbWriter, dbReaders,
                   key, fd, mine, res, pre, calls, nFetch, evicted, okSince>>


\* ---- get(): first transaction, lines 116-136 --------------------------------
\* the automatic eviction of lines 126-136, on usage map c
EvictLeast(c) ==
    LET least_key == LeastUsed(c) IN
    /\ dir' = [dir EXCEPT ![least_key] = "absent"]
    /\ lockFile' = [lockFile EXCEPT ![least_key] = 0]
    /\ lrucache' = Del(c, least_key)
    /\ evicted' = [evicted EXCEPT ![least_key] = TRUE]
    /\ okSince' = [okSince EXCEPT ![least_key] = FALSE]

GetTrx1(p) ==
    LET k == key[p] IN
    /\ pc[p] = "g_trx1"
    /\ dbWriter' = 0
    /\ IF k \in CacheKeys(lrucache)
       THEN \* hit: count it and open the directory
            /\ lrucache' = Incr(lrucache, k)
            /\ Return(p, OpenRepo(k))
            /\ okSince' = [okSince EXCEPT ![k] = @ \/ Answered(OpenRepo(k))]
            /\ UNCHANGED <<dir, lockFile, evicted>>
       ELSE IF k \in badcache
       THEN \* known bad
            /\ Return(p, "None")
            /\ okSince' = [okSince EXCEPT ![k] = TRUE]
            /\ UNCHANGED <<lrucache, dir, lockFile, evicted>>
       ELSE \* miss: make room, then go on to the per-key lock
            /\ IF AtCapacity(lrucache)
               THEN EvictLeast(lrucache)
               ELSE UNCHANGED <<lrucache, dir, lockFile, evicted, okSince>>
            /\ Goto(p, "g_open")
            /\ pre' = [pre EXCEPT ![p] = lrucache]
            /\ UNCHANGED <<res, fd, held, mine>>
    /\ UNCHANGED <<fl, url, doc, trx, badcache, dbReaders, key, calls, nFetch>>

\* ---- get(): under the per-key lock, lines 141-169 ---------------------------
\* lines 144-146: the directory is there, open it
GetCheck(p) ==
    LET k == key[p] IN
    /\ pc[p] = "g_check"
    /\ IF DirExists(k)
       THEN /\ Return(p, "handle")
            /\ okSince' = [okSince EXCEPT ![k] = TRUE]
       ELSE /\ Goto(p, "g_lock2")
            /\ UNCHANGED <<res, fd, held, mine, pre, okSince>>
    /\ UNCHANGED <<fl, url, doc, trx, lrucache, badcache, dir, lockFile, dbWriter, dbReaders,
                   key, calls, nFetch, evicted>>

\* a second check that keeps the index lock over the clone
GetTrx2Nested(p) ==
    LET k == key[p] IN
    /\ pc[p] = "g_trx2"
    /\ IF k \in badcache
       THEN /\ Return(p, "None")
            /\ dbWriter' = 0
            /\ okSince' = [okSince EXCEPT ![k] = TRUE]
       ELSE /\ Goto(p, "g_clone")
            /\ UNCHANGED <<dbWriter, res, fd, held, mine, pre, okSince>>
    /\ UNCHANGED <<fl, url, doc, trx, lrucache, badcache, dir, lockFile, dbReaders, key, calls,
                   nFetch, evicted>>

\* lines 148-151: a write transaction that only looks at the bad set
GetTrx2(p) ==
    LET k == key[p] IN
    /\ pc[p] = "g_trx2"
    /\ dbWriter' = 0
    /\ IF k \in badcache
       THEN /\ Return(p, "None")
            /\ okSince' = [okSince EXCEPT ![k] = TRUE]
       ELSE /\ Goto(p, "g_clone")
            /\ UNCHANGED <<res, fd, held, mine, pre, okSince>>
    /\ UNCHANGED <<fl, url, doc, trx, lrucache, badcache, dir, lockFile, dbReaders, key, calls,
                   nFetch, evicted>>

\* line 155: Repo.clone_from is called; it creates the directory if there
\* is none
CloneBegin(p) ==
    LET k == key[p] IN
    /\ pc[p] = "g_clone"
    /\ nFetch' = [nFetch EXCEPT ![k] = @ + 1]
    /\ mine' = [mine EXCEPT ![p] = ~DirExists(k)]
    /\ dir' = IF DirExists(k) THEN dir ELSE [dir EXCEPT ![k] = "partial"]
    /\ Goto(p, "g_cloning")
    /\ UNCHANGED <<fl, url, doc, trx, lrucache, badcache, lockFile, dbWriter, dbReaders, key,
                   fd, held, res, pre, calls, evicted, okSince>>

\* line 155-156: clone_from returns (the directory is populated) or raises
\* (a directory this clone created is removed again)
CloneEnd(p, ok) ==
    LET k == key[p] IN
    /\ pc[p] = "g_cloning"
    /\ IF ok
       THEN /\ dir' = [dir EXCEPT ![k] = "full"]
            /\ Goto(p, "g_lock3ok")
       ELSE /\ dir' = IF mine[p] THEN [dir EXCEPT ![k] = "absent"] ELSE dir
            /\ Goto(p, "g_lock3bad")
    /\ UNCHANGED <<fl, url, doc, trx, lrucache, badcache, lockFile, dbWriter, dbReaders, key,
                   fd, held, mine, res, pre, calls, nFetch, evicted, okSince>>

\* a get that, its clone having failed, puts back the usage map it loaded when
\* it missed
GetTrx3badRestore(p) ==
    LET k == key[p] IN
    /\ pc[p] = "g_trx3bad"
    /\ dbWriter' = 0
    /\ badcache' = badcache \cup {k}
    /\ lrucache' = pre[p]
    /\ Return(p, "None")
    /\ okSince' = [okSince EXCEPT ![k] = TRUE]
    /\ UNCHANGED <<fl, url, doc, trx, dir, lockFile, dbReaders, key, calls, nFetch,
                   evicted>>

\* a get that lets the clone's exception through and records nothing
GetTrx3badRaise(p) ==
    /\ pc[p] = "g_trx3bad"
    /\ dbWriter' = 0
    /\ Return(p, "error")
    /\ UNCHANGED <<fl, url, doc, trx, lrucache, badcache, dir, lockFile, dbReaders, key, calls,
                   nFetch, evicted, okSince>>

\* lines 159-161: the clone failed
GetTrx3bad(p) ==
    LET k == key[p] IN
    /\ pc[p] = "g_trx3bad"
    /\ dbWriter' = 0
    /\ badcache' = badcache \cup {k}
    /\ Return(p, "None")
    /\ okSince' = [okSince EXCEPT ![k] = TRUE]
    /\ UNCHANGED <<fl, url, doc, trx, lrucache, dir, lockFile, dbReaders, key, calls, nFetch,
                   evicted>>

\* lines 164-169: the clone succeeded
GetTrx3ok(p) ==
    LET k == key[p] IN
    /\ pc[p] = "g_trx3ok"
    /\ dbWriter' = 0
    /\ lrucache' = IF k \notin CacheKeys(lrucache)
                   THEN Put(lrucache, k)
                   ELSE Incr(lrucache, k)
    /\ Return(p, OpenRepo(k))
    /\ okSince' = [okSince EXCEPT ![k] = @ \/ Answered(OpenRepo(k))]
    /\ UNCHANGED <<fl, url, doc, trx, badcache, dir, lockFile, dbReaders, key, calls, nFetch,
                   evicted>>

\* ---- evict(): lines 102-109, under the per-key lock and the index lock ------
EvictTrx(p) ==
    LET k == key[p] IN
    /\ pc[p] = "e_trx"
    /\ dbWriter' = 0
    /\ IF k \in CacheKeys(lrucache)
       THEN /\ lrucache' = Del(lrucache, k)
            /\ dir' = [dir EXCEPT ![k] = "absent"]
            /\ lockFile' = [lockFile EXCEPT ![k] = 0]
       ELSE UNCHANGED <<lrucache, dir, lockFile>>
    /\ Return(p, "done")
    /\ okSince' = [okSince EXCEPT ![k] = FALSE]
    /\ UNCHANGED <<fl, url, doc, trx, badcache, dbReaders, key, calls, nFetch, evicted>>

\* ---- has(): lines 94-95, a read transaction ---------------------------------
HasTrx(p) ==
    /\ pc[p] = "h_trx"
    /\ dbReaders' = dbReaders \ {p}
    /\ Return(p, IF Has(key[p]) THEN "True" ELSE "False")
    /\ UNCHANGED <<fl, url, doc, trx, lrucache, badcache, dir, lockFile, dbWriter, key, calls,
                   nFetch, evicted, okSince>>

\* ---- __init__: lines 85-89, drop the keys whose directory is gone -----------
HasDir(e) == DirExists(e.key)

\* a construction that starts from an empty bad set
InitTrxReset(p) ==
    /\ pc[p] = "i_trx"
    /\ dbWriter' = 0
    /\ lrucache' = SelectSeq(lrucache, HasDir)
    /\ badcache' = {}
    /\ Return(p, "done")
    /\ UNCHANGED <<fl, url, doc, trx, dir, lockFile, dbReaders, key, calls, nFetch, evicted,
                   okSince>>

InitTrx(p) ==
    /\ pc[p] = "i_trx"
    /\ dbWriter' = 0
    /\ lrucache' = SelectSeq(lrucache, HasDir)
    /\ Return(p, "done")
    /\ UNCHANGED <<fl, url, doc, trx, badcache, dir, lockFile, dbReaders, key, calls, nFetch,
                   evicted, okSince>>

\* ---- the specification ------------------------------------------------------
ProcNext(p) ==
    \/ \E k \in Keys : CallGet(p, k)
    \/ \E k \in Keys : CallHas(p, k)
    \/ \E k \in Keys : CallEvict(p, k)
    \/ CallInit(p)
    \/ AcquireWrite(p)
    \/ AcquireRead(p)
    \/ OpenLock(p)
    \/ FlockKey(p)
    \/ GetTrx1(p)
    \/ GetCheck(p)
    \/ GetTrx2(p)
    \/ CloneBegin(p)
    \/ \E ok \in BOOLEAN : CloneEnd(p, ok)
    \/ GetTrx3bad(p)
    \/ GetTrx3ok(p)
    \/ EvictTrx(p)
    \/ HasTrx(p)
    \/ InitTrx(p)

\* any number of worker processes, interleaved
Next == \E p \in Procs : ProcNext(p)

Spec == Init /\ [][Next]_vars


\* Every step of a running operation is taken by a process the operating
\* system keeps scheduling; a flock that can be granted is granted, and the
\* clone ends.  Calls themselves are not forced.
ProcStep(p) ==
    \/ AcquireWrite(p) \/ AcquireRead(p) \/ OpenLock(p) \/ FlockKey(p)
    \/ GetTrx1(p) \/ GetCheck(p) \/ GetTrx2(p) \/ CloneBegin(p)
    \/ (\E ok \in BOOLEAN : CloneEnd(p, ok))
    \/ GetTrx3bad(p) \/ GetTrx3ok(p) \/ EvictTrx(p) \/ HasTrx(p) \/ InitTrx(p)

FairSpec == Spec /\ \A p \in Procs : WF_vars(ProcStep(p))

\* one worker process alone: the operations run one after the other
SeqNext == ProcNext(1)

SeqSpec == Init /\ [][SeqNext]_vars


\* workers that only call get(), on any key, under the same fairness
GetStep(p) ==
    \/ \E k \in Keys : CallGet(p, k)
    \/ AcquireWrite(p)
    \/ OpenLock(p)
    \/ FlockKey(p)
    \/ GetTrx1(p)
    \/ GetCheck(p)
    \/ GetTrx2(p)
    \/ CloneBegin(p)
    \/ \E ok \in BOOLEAN : CloneEnd(p, ok)
    \/ GetTrx3bad(p)
    \/ GetTrx3ok(p)

GetNext == \E p \in Procs : GetStep(p)

FairGetSpec ==
    Init /\ [][GetNext]_vars /\ \A p \in Procs : WF_vars(ProcStep(p))

\* ---- a worker process dies ----------------------------------------------------
\* a kernel that keeps the flock of a dead process
CloseNone(p) == UNCHANGED <<fd, held>>

\* the kernel closes the lock file of the dead process, which drops its flock
\* (the lock of lines 27-28 lives with the open file)
CloseAll(p) ==
    /\ fd' = [fd EXCEPT ![p] = 0]
    /\ held' = [held EXCEPT ![p] = FALSE]

\* where the process was: past a clone that returned (lines 163-164), under the
\* per-key lock, or elsewhere
CrashRes(p) ==
    IF pc[p] \in {"g_lock3ok", "g_trx3ok"} THEN "crashed_fetched"
    ELSE IF held[p] THEN "crashed_locked"
    ELSE "crashed"

\* p is killed between two steps of a running operation.  Its locks on the index
\* lock file go with it; a transaction it had entered is not dumped; the
\* directories stay as they are.  The process is not restarted.
Crash(p) ==
    /\ pc[p] \notin {"idle", "dead"}
    /\ pc' = [pc EXCEPT ![p] = "dead"]
    /\ res' = [res EXCEPT ![p] = CrashRes(p)]
    /\ CloseAll(p)
    /\ dbWriter' = IF dbWriter = p THEN 0 ELSE dbWriter
    /\ dbReaders' = dbReaders \ {p}
    /\ mine' = [mine EXCEPT ![p] = FALSE]
    /\ pre' = [pre EXCEPT ![p] = <<>>]
    /\ UNCHANGED <<fl, url, doc, trx, lrucache, badcache, dir, lockFile, key, calls, nFetch,
                   evicted, okSince>>

\* workers that call get() and may die; the steps of the living are fair, dying
\* is not
CrashStep(p) ==
    \/ GetStep(p)
    \/ Crash(p)

CrashNext == \E p \in Procs : CrashStep(p)

FairCrashSpec ==
    Init /\ [][CrashNext]_vars /\ \A p \in Procs : WF_vars(ProcStep(p))

\* ---- workers that find an index earlier workers left ---------------------------
\* A base directory and an index as five earlier operations can leave them
\* (this state is reachable under Spec): the usage map is at capacity and key 2
\* is in the bad set as well.  No operation is in progress.
WarmInit ==
    /\ lrucache = <<[key |-> 1, n |-> 1], [key |-> 2, n |-> 1]>>
    /\ badcache = {2}
    /\ dir = [k \in Keys |-> IF k \in {1, 2} THEN "full" ELSE "absent"]
    /\ lockFile = [k \in Keys |-> IF k \in {1, 2} THEN k ELSE 0]
    /\ dbWriter = 0
    /\ dbReaders = {}
    /\ pc = [p \in Procs |-> "idle"]
    /\ key = [p \in Procs |-> 2]
    /\ fd = [p \in Procs |-> 0]
    /\ held = [p \in Procs |-> FALSE]
    /\ mine = [p \in Procs |-> FALSE]
    /\ res = [p \in Procs |-> IF p = 1 THEN "None" ELSE "handle"]
    /\ pre = [p \in Procs |-> <<>>]
    /\ calls = 0
    /\ nFetch = [k \in Keys |-> IF k = 1 THEN 1 ELSE IF k = 2 THEN 3 ELSE 0]
    /\ evicted = [k \in Keys |-> k = 2]
    /\ okSince = [k \in Keys |-> k \in {1, 2}]
    /\ doc = <<>>
    /\ trx = [p \in Procs |-> [lrucache |-> <<>>, badcache |-> {}]]
    /\ fl = [p \in Procs |-> [self |-> {}, mode |-> "w"]]
    /\ url = [p \in Procs |-> <<>>]

WarmSpec == WarmInit /\ [][Next]_vars

\* ---- workers caught in two overlapping clones -----------------------------------
\* A state that is reachable under Spec after four operations: worker 1 got and
\* evicted key 1 while worker 2, whose get(1) had missed, kept the unlinked lock
\* file open; worker 1 called get(1) again and locked a new lock file, and both
\* are now inside clone_from for key 1.  The two running calls are counted.
OverlapInit ==
    /\ lrucache = <<>>
    /\ badcache = {}
    /\ dir = [k \in Keys |-> IF k = 1 THEN "partial" ELSE "absent"]
    /\ lockFile = [k \in Keys |-> IF k = 1 THEN 2 ELSE 0]
    /\ dbWriter = 0
    /\ dbReaders = {}
    /\ pc = [p \in Procs |-> IF p \in {1, 2} THEN "g_cloning" ELSE "idle"]
    /\ key = [p \in Procs |-> 1]
    /\ fd = [p \in Procs |-> IF p = 1 THEN 2 ELSE IF p = 2 THEN 1 ELSE 0]
    /\ held = [p \in Procs |-> p \in {1, 2}]
    /\ mine = [p \in Procs |-> p = 1]
    /\ res = [p \in Procs |-> "-"]
    /\ pre = [p \in Procs |-> <<>>]
    /\ calls = 2
    /\ nFetch = [k \in Keys |-> IF k = 1 THEN 3 ELSE 0]
    /\ evicted = [k \in Keys |-> k = 1]
    /\ okSince = [k \in Keys |-> FALSE]
    /\ url = [p \in Procs |-> <<>>]
    /\ doc = <<>>
    /\ trx = [p \in Procs |-> [lrucache |-> <<>>, badcache |-> {}]]
    /\ fl = [p \in Procs |-> [self |-> {}, mode |-> "w"]]

OverlapSpec == OverlapInit /\ [][Next]_vars

\* ---- _digest(): lines 171-180, on strings as sequences of characters ----------
UpperCase == <<"A", "B", "C", "D", "E", "F", "G", "H", "I", "J", "K", "L", "M",
               "N", "O", "P", "Q", "R", "S", "T", "U", "V", "W", "X", "Y", "Z">>

LowerCase == <<"a", "b", "c", "d", "e", "f", "g", "h", "i", "j", "k", "l", "m",
               "n", "o", "p", "q", "r", "s", "t", "u", "v", "w", "x", "y", "z">>

Whitespace == {" ", "\t", "\n"}

\* a str.lower() that leaves the letters as they are
lowerKeep(s) == s

\* str.lower()
lower(s) ==
    [i \in 1..Len(s) |->
        IF \E j \in 1..Len(UpperCase) : UpperCase[j] = s[i]
        THEN LowerCase[CHOOSE j \in 1..Len(UpperCase) : UpperCase[j] = s[i]]
        ELSE s[i]]

\* str.rstrip(chars) and str.lstrip(chars)
RECURSIVE rstrip(_, _)
rstrip(s, chars) ==
    IF s # <<>> /\ s[Len(s)] \in chars
    THEN rstrip(SubSeq(s, 1, Len(s) - 1), chars)
    ELSE s

RECURSIVE lstrip(_, _)
lstrip(s, chars) ==
    IF s # <<>> /\ s[1] \in chars
    THEN lstrip(Tail(s), chars)
    ELSE s

\* str.strip()
strip(s) == lstrip(rstrip(s, Whitespace), Whitespace)

\* str.endswith(t) and str.startswith(t)
endswith(s, t) ==
    Len(s) >= Len(t) /\ SubSeq(s, Len(s) - Len(t) + 1, Len(s)) = t

startswith(s, t) == Len(s) >= Len(t) /\ SubSeq(s, 1, Len(t)) = t

\* str.split(c) for a separator of one character: the pieces between the
\* separators, empty ones included
RECURSIVE split(_, _)
split(s, c) ==
    IF \A i \in 1..Len(s) : s[i] # c
    THEN <<s>>
    ELSE LET i == CHOOSE a \in 1..Len(s) :
                      s[a] = c /\ \A b \in 1..(a - 1) : s[b] # c
         IN <<SubSeq(s, 1, i - 1)>> \o split(SubSeq(s, i + 1, Len(s)), c)

\* the ValueError of an unpacking that does not get two values (lines 177, 179)
ValueError == <<"ValueError">>

\* f"{group}+{repo}"
GroupRepo(group, repo) == group \o <<"+">> \o repo

digest(git_url) ==
    LET a == lower(strip(git_url))
        b == rstrip(a, {"/"})
        c == IF endswith(b, <<".", "g", "i", "t">>)
             THEN SubSeq(b, 1, Len(b) - 4)
             ELSE b
    IN IF startswith(c, <<"h", "t", "t", "p", "s", ":", "/", "/">>)
       THEN LET parts == split(c, "/")
                n == Len(parts)
            IN \* [-2:] of a list of at least three pieces
               GroupRepo(parts[n - 1], parts[n])
       ELSE LET colon == split(c, ":")
                parts == split(colon[Len(colon)], "/")
            IN IF Len(parts) = 2
               THEN GroupRepo(parts[1], parts[2])
               ELSE ValueError

\* ---- has, get and evict called with a locator -----------------------------------
\* the locators of one repository, group g and name r on host h: https and
\* SSH-style, in several letter cases, with and without surrounding blanks,
\* trailing slashes and a trailing .git
Prefixes ==
    { <<"h", "t", "t", "p", "s", ":", "/", "/", "h", "/">>,
      <<"H", "T", "T", "P", "S", ":", "/", "/", "H", "/">>,
      <<" ", "H", "t", "t", "p", "s", ":", "/", "/", "h", "/">>,
      <<"h", ":">>,
      <<"g", "i", "t", "@", "H", ":">>,
      <<"\t", "g", "i", "t", "@", "h", ":">> }

Suffixes ==
    { <<>>,
      <<"/">>,
      <<"/", "/">>,
      <<".", "g", "i", "t">>,
      <<".", "G", "I", "T">>,
      <<".", "g", "i", "t", "/">>,
      <<".", "G", "i", "t", "/", "/", "\n">> }

Spellings ==
    { head \o g \o <<"/">> \o r \o suf :
          head \in Prefixes, g \in {<<"g">>, <<"G">>},
          r \in {<<"r">>, <<"R">>}, suf \in Suffixes }

\* locators with fewer than two path segments (a name r and no group, or
\* nothing after the host)
ShortLocators ==
    { <<"h", "t", "t", "p", "s", ":", "/", "/", "h", "/", "r">>,
      <<"h", "t", "t", "p", "s", ":", "/", "/", "h", "/", "r", ".", "g", "i", "t">>,
      <<"H", "T", "T", "P", "S", ":", "/", "/", "H", "/", "R", "/">>,
      <<"h", "t", "t", "p", "s", ":", "/", "/", "h">>,
      <<"h", "t", "t", "p", "s", ":", "/", "/", "h", "/">>,
      <<"h", ":", "r">>,
      <<"g", "i", "t", "@", "h", ":", "r", ".", "g", "i", "t">>,
      <<"r">> }

Locators == Spellings \cup ShortLocators

\* the keys _digest produces for Locators, numbered as the elements of Keys
KeyNames ==
    << <<"g", "+", "r">>, <<"h", "+", "r">>, <<"+", "h">> >>

KeyOf(d) == CHOOSE k \in 1..Len(KeyNames) : KeyNames[k] = d

\* key = self._digest(git_url) raises (lines 92, 98, 112): the call ends there
DigestRaise(p) ==
    /\ pc[p] = "idle"
    /\ calls < MaxOps
    /\ digest(url[p]) = ValueError
    /\ calls' = calls + 1
    /\ res' = [res EXCEPT ![p] = "ValueError"]
    /\ UNCHANGED <<fl, doc, trx, lrucache, badcache, dir, lockFile, dbWriter, dbReaders, pc,
                   key, fd, held, mine, pre, nFetch, evicted, okSince, url>>

HasUrl(p) ==
    IF digest(url[p]) = ValueError
    THEN DigestRaise(p)
    ELSE CallHas(p, KeyOf(digest(url[p])))

GetUrl(p) ==
    IF digest(url[p]) = ValueError
    THEN DigestRaise(p)
    ELSE CallGet(p, KeyOf(digest(url[p])))

EvictUrl(p) ==
    IF digest(url[p]) = ValueError
    THEN DigestRaise(p)
    ELSE CallEvict(p, KeyOf(digest(url[p])))

\* one worker that passes the same locator, any of Locators, to all its calls
DigestInit == PoolInit /\ \E u \in Locators : url = [p \in Procs |-> u]

DigestNext ==
    \/ HasUrl(1)
    \/ GetUrl(1)
    \/ EvictUrl(1)
    \/ CallInit(1)
    \/ ProcStep(1)

DigestSpec == DigestInit /\ [][DigestNext]_vars

\* ---- FileDB.Transaction on the index file: lines 44-69 ---------------------------
\* list(self.badcache): the elements of the set in some order
Perms(S) ==
    {a \in [1..Cardinality(S) -> S] :
         \A i, j \in 1..Cardinality(S) : i # j => a[i] # a[j]}

\* the JSON object json.dump writes for the dict: its members in iteration order
Members(c) == [i \in 1..Len(c) |-> [name |-> c[i].key, value |-> c[i].n]]

\* _dump, lines 64-69: the documents it may write for usage map c and bad set b
dump(c, b) ==
    {[lrucache |-> Members(c), badcache |-> a] : a \in Perms(b)}

\* obj.get("lrucache", {}): the dict json.load builds from the members
LoadMap(d) ==
    IF "lrucache" \in DOMAIN d
    THEN [i \in 1..Len(d.lrucache) |->
             [key |-> d.lrucache[i].name, n |-> d.lrucache[i].value]]
    ELSE <<>>

\* a _load that looks the bad set up under a name the document does not have
LoadBadNone(d) == {}

\* set(obj.get("badcache", []))
LoadBad(d) ==
    IF "badcache" \in DOMAIN d
    THEN {d.badcache[i] : i \in 1..Len(d.badcache)}
    ELSE {}

\* file_db.lock().__enter__, lines 44-47: the index lock, then _load
TrxEnter(p) ==
    /\ pc[p] = "idle"
    /\ calls < MaxOps
    /\ dbWriter = 0
    /\ dbReaders = {}
    /\ calls' = calls + 1
    /\ dbWriter' = p
    /\ pc' = [pc EXCEPT ![p] = "t_body"]
    /\ res' = [res EXCEPT ![p] = "-"]
    /\ IF doc = <<>>
       THEN lrucache' = <<>> /\ badcache' = {}
       ELSE lrucache' = LoadMap(doc[1]) /\ badcache' = LoadBad(doc[1])
    /\ UNCHANGED <<fl, dir, lockFile, dbReaders, key, fd, held, mine, pre, nFetch,
                   evicted, okSince, url, doc, trx>>

\* the body of a write transaction changes trx.lrucache or trx.badcache as the
\* bodies of lines 89, 105, 119, 136, 160 and 166-168 do, or changes nothing
TrxBody(p) ==
    /\ pc[p] = "t_body"
    /\ pc' = [pc EXCEPT ![p] = "t_exit"]
    /\ \E k \in Keys :
           \/ /\ lrucache' = IF k \in CacheKeys(lrucache)
                             THEN Incr(lrucache, k)
                             ELSE Put(lrucache, k)
              /\ UNCHANGED badcache
           \/ /\ k \in CacheKeys(lrucache)
              /\ lrucache' = Del(lrucache, k)
              /\ UNCHANGED badcache
           \/ /\ badcache' = badcache \cup {k}
              /\ UNCHANGED lrucache
           \/ UNCHANGED <<lrucache, badcache>>
    /\ UNCHANGED <<fl, dir, lockFile, dbWriter, dbReaders, key, fd, held, mine,
                   res, pre, calls, nFetch, evicted, okSince, url, doc, trx>>

\* __exit__, lines 49-52: _dump, then the index lock is released
TrxExit(p) ==
    /\ pc[p] = "t_exit"
    /\ pc' = [pc EXCEPT ![p] = "idle"]
    /\ res' = [res EXCEPT ![p] = "done"]
    /\ \E d \in dump(lrucache, badcache) : doc' = <<d>>
    /\ dbWriter' = 0
    /\ UNCHANGED <<fl, lrucache, badcache, dir, lockFile, dbReaders, key, fd,
                   held, mine, pre, calls, nFetch, evicted, okSince, url, trx>>

\* write transactions of any worker, one after the other, on the index file
JsonStep(p) ==
    \/ TrxEnter(p)
    \/ TrxBody(p)
    \/ TrxExit(p)

JsonNext == \E p \in Procs : JsonStep(p)

JsonSpec == Init /\ [][JsonNext]_vars

\* ---- write transactions step by step: lines 44-52 ------------------------------
\* Each worker has its own Transaction object: __enter__ takes the index lock
\* and loads the file into trx[p], the body works on trx[p], __exit__ dumps
\* trx[p] and unlocks.  lrucache and badcache follow the bodies one by one: they
\* are what the transactions amount to when each runs alone.

\* an index lock that excludes nobody
WriteFreeAlways == TRUE

\* flock(LOCK_EX) on the index lock file is granted (line 28)
WriteFree == dbWriter = 0 /\ dbReaders = {}

\* json.load accepts the text of the file (line 57)
Parses(d) == "garbage" \notin DOMAIN d

\* a get(k) opens the write transaction of line 116 (k is in the usage map) or,
\* its clone having failed, that of line 159 (k is not)
WtCall(p, k) ==
    /\ pc[p] = "idle"
    /\ calls < MaxOps
    /\ calls' = calls + 1
    /\ key' = [key EXCEPT ![p] = k]
    /\ res' = [res EXCEPT ![p] = "-"]
    /\ pc' = [pc EXCEPT ![p] = "w_lock"]
    /\ UNCHANGED <<fl, lrucache, badcache, dir, lockFile, dbWriter, dbReaders, fd,
                   held, mine, pre, nFetch, evicted, okSince, url, doc, trx>>

\* line 45
WtLock(p) ==
    /\ pc[p] = "w_lock"
    /\ WriteFree
    /\ dbWriter' = p
    /\ pc' = [pc EXCEPT ![p] = "w_load"]
    /\ UNCHANGED <<fl, lrucache, badcache, dir, lockFile, dbReaders, key, fd, held,
                   mine, res, pre, calls, nFetch, evicted, okSince, url, doc,
                   trx>>

\* the usage map and the bad set _load makes of the index file (lines 54-62)
Loaded ==
    IF doc = <<>>
    THEN [lrucache |-> <<>>, badcache |-> {}]
    ELSE [lrucache |-> LoadMap(doc[1]), badcache |-> LoadBad(doc[1])]

\* line 46: _load; when json.load raises, __enter__ raises and __exit__ is not
\* run, so the lock stays with the Transaction object
WtLoad(p) ==
    /\ pc[p] = "w_load"
    /\ IF doc # <<>> /\ ~Parses(doc[1])
       THEN /\ pc' = [pc EXCEPT ![p] = "idle"]
            /\ res' = [res EXCEPT ![p] = "error"]
            /\ UNCHANGED trx
       ELSE /\ pc' = [pc EXCEPT ![p] = "w_body"]
            /\ trx' = [trx EXCEPT ![p] = Loaded]
            /\ UNCHANGED res
    /\ UNCHANGED <<fl, lrucache, badcache, dir, lockFile, dbWriter, dbReaders, key,
                   fd, held, mine, pre, calls, nFetch, evicted, okSince, url,
                   doc>>

\* lines 118-119 (a hit) or line 160 (the clone failed), on maps c and b
BodyMap(c, k) == IF k \in CacheKeys(c) THEN Incr(c, k) ELSE c

BodyBad(c, b, k) == IF k \in CacheKeys(c) THEN b ELSE b \cup {k}

WtBody(p) ==
    LET k == key[p]
        t == trx[p]
    IN /\ pc[p] = "w_body"
       /\ pc' = [pc EXCEPT ![p] = "w_dump"]
       /\ trx' = [trx EXCEPT ![p] =
                     [lrucache |-> BodyMap(t.lrucache, k),
                      badcache |-> BodyBad(t.lrucache, t.badcache, k)]]
       /\ lrucache' = BodyMap(lrucache, k)
       /\ badcache' = BodyBad(lrucache, badcache, k)
       /\ UNCHANGED <<fl, dir, lockFile, dbWriter, dbReaders, key, fd, held, mine,
                      res, pre, calls, nFetch, evicted, okSince, url, doc>>

\* line 51: _dump
WtDump(p) ==
    /\ pc[p] = "w_dump"
    /\ pc' = [pc EXCEPT ![p] = "w_unlock"]
    /\ \E d \in dump(trx[p].lrucache, trx[p].badcache) : doc' = <<d>>
    /\ UNCHANGED <<fl, lrucache, badcache, dir, lockFile, dbWriter, dbReaders, key,
                   fd, held, mine, res, pre, calls, nFetch, evicted, okSince,
                   url, trx>>

\* line 52
WtUnlock(p) ==
    /\ pc[p] = "w_unlock"
    /\ pc' = [pc EXCEPT ![p] = "idle"]
    /\ res' = [res EXCEPT ![p] = "done"]
    /\ dbWriter' = IF dbWriter = p THEN 0 ELSE dbWriter
    /\ UNCHANGED <<fl, lrucache, badcache, dir, lockFile, dbReaders, key, fd, held,
                   mine, pre, calls, nFetch, evicted, okSince, url, doc, trx>>

WtStep(p) ==
    \/ \E k \in Keys : WtCall(p, k)
    \/ WtLock(p)
    \/ WtLoad(p)
    \/ WtBody(p)
    \/ WtDump(p)
    \/ WtUnlock(p)

\* the document _dump writes for usage map c and bad set b listed in key order
DocOf(c, b) ==
    [lrucache |-> Members(c),
     badcache |-> CHOOSE a \in Perms(b) :
                      \A i, j \in 1..Len(a) : i < j => a[i] < a[j]]

\* the index earlier operations left: max_size keys with counter 1, their
\* directories and lock files, and an empty bad set
FullMap == [i \in 1..MaxSize |-> [key |-> i, n |-> 1]]

SerialInit ==
    /\ lrucache = FullMap
    /\ badcache = {}
    /\ dir = [k \in Keys |-> IF k <= MaxSize THEN "full" ELSE "absent"]
    /\ lockFile = [k \in Keys |-> IF k <= MaxSize THEN 1 ELSE 0]
    /\ dbWriter = 0
    /\ dbReaders = {}
    /\ pc = [p \in Procs |-> "idle"]
    /\ key = [p \in Procs |-> 1]
    /\ fd = [p \in Procs |-> 0]
    /\ held = [p \in Procs |-> FALSE]
    /\ mine = [p \in Procs |-> FALSE]
    /\ res = [p \in Procs |-> "-"]
    /\ pre = [p \in Procs |-> <<>>]
    /\ calls = 0
    /\ nFetch = [k \in Keys |-> IF k <= MaxSize THEN 1 ELSE 0]
    /\ evicted = [k \in Keys |-> FALSE]
    /\ okSince = [k \in Keys |-> k <= MaxSize]
    /\ url = [p \in Procs |-> <<>>]
    /\ doc = <<DocOf(FullMap, {})>>
    /\ trx = [p \in Procs |-> [lrucache |-> <<>>, badcache |-> {}]]
    /\ fl = [p \in Procs |-> [self |-> {}, mode |-> "w"]]

SerialNext == \E p \in Procs : WtStep(p)

SerialSpec == SerialInit /\ [][SerialNext]_vars

\* ---- transactions on an index file that is not what _dump writes ---------------
\* has() opens the read transaction of line 94
RtCall(p, k) ==
    /\ pc[p] = "idle"
    /\ calls < MaxOps
    /\ calls' = calls + 1
    /\ key' = [key EXCEPT ![p] = k]
    /\ res' = [res EXCEPT ![p] = "-"]
    /\ pc' = [pc EXCEPT ![p] = "r_lock"]
    /\ UNCHANGED <<fl, lrucache, badcache, dir, lockFile, dbWriter, dbReaders, fd,
                   held, mine, pre, nFetch, evicted, okSince, url, doc, trx>>

\* line 45 in mode "r": flock(LOCK_SH)
RtLock(p) ==
    /\ pc[p] = "r_lock"
    /\ dbWriter = 0
    /\ dbReaders' = dbReaders \cup {p}
    /\ pc' = [pc EXCEPT ![p] = "r_load"]
    /\ UNCHANGED <<fl, lrucache, badcache, dir, lockFile, dbWriter, key, fd, held,
                   mine, res, pre, calls, nFetch, evicted, okSince, url, doc,
                   trx>>

\* line 46 in mode "r"
RtLoad(p) ==
    /\ pc[p] = "r_load"
    /\ IF doc # <<>> /\ ~Parses(doc[1])
       THEN /\ pc' = [pc EXCEPT ![p] = "idle"]
            /\ res' = [res EXCEPT ![p] = "error"]
            /\ UNCHANGED trx
       ELSE /\ pc' = [pc EXCEPT ![p] = "r_body"]
            /\ trx' = [trx EXCEPT ![p] = Loaded]
            /\ UNCHANGED res
    /\ UNCHANGED <<fl, lrucache, badcache, dir, lockFile, dbWriter, dbReaders, key,
                   fd, held, mine, pre, calls, nFetch, evicted, okSince, url,
                   doc>>

\* line 95, then __exit__ in mode "r": no dump, unlock
RtUnlock(p) ==
    /\ pc[p] = "r_body"
    /\ pc' = [pc EXCEPT ![p] = "idle"]
    /\ res' = [res EXCEPT ![p] =
                  IF key[p] \in CacheKeys(trx[p].lrucache) \cup trx[p].badcache
                  THEN "True" ELSE "False"]
    /\ dbReaders' = dbReaders \ {p}
    /\ UNCHANGED <<fl, lrucache, badcache, dir, lockFile, dbWriter, key, fd, held,
                   mine, pre, calls, nFetch, evicted, okSince, url, doc, trx>>

\* line 51 raises (no space for the temporary file, or a rename across file
\* systems): __exit__ ends before line 52 and the file is as it was
WtDumpFail(p) ==
    /\ pc[p] = "w_dump"
    /\ pc' = [pc EXCEPT ![p] = "idle"]
    /\ res' = [res EXCEPT ![p] = "error"]
    /\ UNCHANGED <<fl, lrucache, badcache, dir, lockFile, dbWriter, dbReaders, key,
                   fd, held, mine, pre, calls, nFetch, evicted, okSince, url,
                   doc, trx>>

\* the FileLock of a transaction that ended without line 52 keeps its open file,
\* and the flock on it, until the object is deallocated
Dealloc(p) ==
    /\ pc[p] = "idle"
    /\ dbWriter = p \/ p \in dbReaders
    /\ dbWriter' = IF dbWriter = p THEN 0 ELSE dbWriter
    /\ dbReaders' = dbReaders \ {p}
    /\ UNCHANGED <<fl, lrucache, badcache, dir, lockFile, pc, key, fd, held, mine,
                   res, pre, calls, nFetch, evicted, okSince, url, doc, trx>>

FaultStep(p) ==
    \/ WtStep(p)
    \/ \E k \in Keys : RtCall(p, k)
    \/ RtLock(p)
    \/ RtLoad(p)
    \/ RtUnlock(p)
    \/ WtDumpFail(p)
    \/ Dealloc(p)

\* a file json.load rejects
Garbage == [garbage |-> TRUE]

\* index files found at construction: one that is not JSON, JSON objects that
\* lack one member or both, and one _dump wrote
FoundDocs ==
    {Garbage,
     [badcache |-> <<1>>],
     [lrucache |-> Members(FullMap)],
     [version |-> 1],
     DocOf(FullMap, {})}

\* the document has the two members _dump writes
WellFormed(d) ==
    Parses(d) /\ "lrucache" \in DOMAIN d /\ "badcache" \in DOMAIN d

FaultInit ==
    /\ doc \in {<<d>> : d \in FoundDocs}
    /\ lrucache = IF Parses(doc[1]) THEN LoadMap(doc[1]) ELSE <<>>
    /\ badcache = IF Parses(doc[1]) THEN LoadBad(doc[1]) ELSE {}
    /\ dir = [k \in Keys |-> IF k <= MaxSize THEN "full" ELSE "absent"]
    /\ lockFile = [k \in Keys |-> IF k <= MaxSize THEN 1 ELSE 0]
    /\ dbWriter = 0
    /\ dbReaders = {}
    /\ pc = [p \in Procs |-> "idle"]
    /\ key = [p \in Procs |-> 1]
    /\ fd = [p \in Procs |-> 0]
    /\ held = [p \in Procs |-> FALSE]
    /\ mine = [p \in Procs |-> FALSE]
    /\ res = [p \in Procs |-> "-"]
    /\ pre = [p \in Procs |-> <<>>]
    /\ calls = 0
    /\ nFetch = [k \in Keys |-> IF k <= MaxSize THEN 1 ELSE 0]
    /\ evicted = [k \in Keys |-> FALSE]
    /\ okSince = [k \in Keys |-> k <= MaxSize]
    /\ url = [p \in Procs |-> <<>>]
    /\ trx = [p \in Procs |-> [lrucache |-> <<>>, badcache |-> {}]]
    /\ fl = [p \in Procs |-> [self |-> {}, mode |-> "w"]]

FaultNext == \E p \in Procs : FaultStep(p)

FaultSpec == FaultInit /\ [][FaultNext]_vars

\* ---- a pool one worker has asked once ------------------------------------------
\* the state after has(k) of worker 1 on the new pool returned False; from here
\* the workers run under the fairness of FairSpec
AskedInit ==
    /\ lrucache = <<>>
    /\ badcache = {}
    /\ dir = [k \in Keys |-> "absent"]
    /\ lockFile = [k \in Keys |-> 0]
    /\ dbWriter = 0
    /\ dbReaders = {}
    /\ pc = [p \in Procs |-> "idle"]
    /\ key = [p \in Procs |-> 1]
    /\ fd = [p \in Procs |-> 0]
    /\ held = [p \in Procs |-> FALSE]
    /\ mine = [p \in Procs |-> FALSE]
    /\ res = [p \in Procs |-> IF p = 1 THEN "False" ELSE "-"]
    /\ pre = [p \in Procs |-> <<>>]
    /\ calls = 1
    /\ nFetch = [k \in Keys |-> 0]
    /\ evicted = [k \in Keys |-> FALSE]
    /\ okSince = [k \in Keys |-> FALSE]
    /\ url = [p \in Procs |-> <<>>]
    /\ doc = <<>>
    /\ trx = [p \in Procs |-> [lrucache |-> <<>>, badcache |-> {}]]
    /\ fl = [p \in Procs |-> [self |-> {}, mode |-> "w"]]

FairAskedSpec ==
    AskedInit /\ [][Next]_vars /\ \A p \in Procs : WF_vars(ProcStep(p))

\* ---- FileLock: lines 22-31 ------------------------------------------------------
\* An object is the set of <<attribute, value>> pairs assigned on it so far.
\* the attribute lookup o.a succeeds
HasAttr(o, a) == \E x \in o : x[1] = a

\* o.a
GetAttr(o, a) == (CHOOSE x \in o : x[1] = a)[2]

\* o.a = v
SetAttr(o, a, v) == {x \in o : x[1] # a} \cup {<<a, v>>}

Modes == {"r", "w"}

\* the operation __enter__ passes to fcntl.flock for lock object o (line 28)
LockOp(o) == IF GetAttr(o, "mode") = "r" THEN "LOCK_SH" ELSE "LOCK_EX"

\* FileLock(file, m) is called (line 42 with the mode of lock_read or lock,
\* lines 102 and 141 with the default): a new object, no attribute set
FileLockNew(p, m) ==
    /\ pc[p] = "idle"
    /\ calls < MaxOps
    /\ calls' = calls + 1
    /\ fl' = [fl EXCEPT ![p] = [self |-> {}, mode |-> m]]
    /\ res' = [res EXCEPT ![p] = "-"]
    /\ pc' = [pc EXCEPT ![p] = "f_init"]
    /\ UNCHANGED <<lrucache, badcache, dir, lockFile, dbWriter, dbReaders, key,
                   fd, held, mine, pre, nFetch, evicted, okSince, url, doc, trx>>

\* __init__, lines 23-25: line 24 evaluates self.mode to choose between "rb"
\* and "wb", line 25 assigns self.mode; a lookup that fails raises
\* AttributeError and ends the construction
FileLockInit(p) ==
    LET self == fl[p].self
        mode == fl[p].mode
    IN /\ pc[p] = "f_init"
       /\ pc' = [pc EXCEPT ![p] = "idle"]
       /\ IF HasAttr(self, "mode")
          THEN /\ fl' = [fl EXCEPT ![p].self =
                            SetAttr(SetAttr(self, "file",
                                            IF GetAttr(self, "mode") = "r"
                                            THEN "rb" ELSE "wb"),
                                    "mode", mode)]
               /\ res' = [res EXCEPT ![p] = "FileLock"]
          ELSE /\ res' = [res EXCEPT ![p] = "AttributeError"]
               /\ UNCHANGED fl
       /\ UNCHANGED <<lrucache, badcache, dir, lockFile, dbWriter, dbReaders,
                      key, fd, held, mine, pre, calls, nFetch, evicted, okSince,
                      url, doc, trx>>

LockStep(p) ==
    \/ \E m \in Modes : FileLockNew(p, m)
    \/ FileLockInit(p)

LockNext == \E p \in Procs : LockStep(p)

\* workers that construct lock objects, in either mode
LockSpec == Init /\ [][LockNext]_vars

\* ==== properties ==============================================================
\* no has, get, evict or construction is in progress
Quiet == \A p \in Procs : pc[p] = "idle"

\* the last operation of p was a get and it has ended
GetDone(p) == pc[p] = "idle" /\ res[p] \in {"handle", "None", "error"}

\* p is inside Repo.clone_from for key k
Fetching(p, k) == pc[p] = "g_cloning" /\ key[p] = k

\* this step ends an operation of p with outcome r
Returns(p, r) == pc[p] # "idle" /\ pc'[p] = "idle" /\ res'[p] = r

\* ---- C1 ------------------------------------------------------------------------
\* C1: as long as no evict(k) was called and k was not selected by an automatic
\* eviction, clone_from is invoked at most once for k; once some get(k) has
\* returned it has been invoked exactly once, and each get(k) that returned
\* either holds a handle to the populated directory of k, k being in the usage
\* map, or got None with k in the bad set because that one clone failed.  Every
\* get(k) that was called returns in this way (or k gets evicted).
C1_Safe ==
    \A k \in Keys :
        ~evicted[k] =>
            /\ nFetch[k] <= 1
            /\ \A p \in Procs :
                   (GetDone(p) /\ key[p] = k) =>
                       /\ nFetch[k] = 1
                       /\ \/ /\ res[p] = "handle"
                             /\ dir[k] = "full"
                             /\ k \in CacheKeys(lrucache)
                             /\ k \notin badcache
                          \/ /\ res[p] = "None"
                             /\ k \in badcache
                             /\ k \notin CacheKeys(lrucache)

C2_FetchExclusive ==
    \A p, q \in Procs, k \in Keys :
        (Fetching(p, k) /\ Fetching(q, k)) => p = q

\* ---- C3 ------------------------------------------------------------------------
\* C3: whenever no operation is in progress the usage map holds at most max_size
\* keys.
C3_CapacityBound == Quiet => Len(lrucache) <= MaxSize

\* ---- C4 ------------------------------------------------------------------------
\* C4: whenever a get returns a handle for key k, the directory of k is fully
\* populated (a clone that wrote it has returned without error) and no clone of
\* k is in progress.
C4_NoPartialHandle ==
    [][\A p \in Procs :
          Returns(p, "handle") =>
              /\ dir'[key[p]] = "full"
              /\ \A q \in Procs : ~(pc'[q] = "g_cloning" /\ key'[q] = key[p])]_vars

\* ---- C5 ------------------------------------------------------------------------
\* C5: whenever no operation is in progress (no process crashes in Spec), the
\* directory of k exists iff k is a key of the persisted usage map.
C5_DirIffKey ==
    Quiet => \A k \in Keys : DirExists(k) <=> k \in CacheKeys(lrucache)

\* ---- C6 ------------------------------------------------------------------------
\* C6: has(k) turns true only in a step that ends a get(k), and in every state
\* where a get(k) has ended with a handle or None and no eviction of k has run
\* since, has(k) is true.
C6_HasAfterGet ==
    [][\A k \in Keys :
          /\ (~Has(k) /\ Has(k)') =>
                 \E p \in Procs :
                     key[p] = k /\ (Returns(p, "handle") \/ Returns(p, "None"))
          /\ okSince'[k] => Has(k)']_vars

\* ---- C7 ------------------------------------------------------------------------
\* C7: every get that returns a handle raises the persisted counter of its key
\* by exactly 1 (from "absent", counted as 0, to 1 on the first one).
C7_CountsEveryGet ==
    [][\A p \in Procs :
          Returns(p, "handle") =>
              Count(lrucache', key[p]) = Count(lrucache, key[p]) + 1]_vars


\* ---- C8 ------------------------------------------------------------------------
\* C8: with one worker, when a get(c) that missed on a usage map of exactly
\* max_size keys ends its successful clone, the usage map again holds max_size
\* keys, c among them with counter 1; exactly one key v of the old map is gone,
\* the counter v had was the least of the old map, the other keys keep their
\* counters, and neither the directory nor the lock file of v exists.
C8_Post(old, c) ==
    /\ Len(lrucache') = MaxSize
    /\ Count(lrucache', c) = 1
    /\ \E v \in CacheKeys(old) :
           /\ CacheKeys(lrucache') = (CacheKeys(old) \ {v}) \cup {c}
           /\ \A j \in CacheKeys(old) : Count(old, v) <= Count(old, j)
           /\ \A j \in CacheKeys(old) \ {v} : Count(lrucache', j) = Count(old, j)
           /\ dir'[v] = "absent"
           /\ lockFile'[v] = 0

\* C8: the step that ends such a get returns a handle and establishes C8_Post
\* for the usage map the get loaded when it missed.
C8_EvictsLeastUsed ==
    [][\A p \in Procs :
          (pc[p] = "g_trx3ok" /\ pc'[p] = "idle" /\ Len(pre[p]) = MaxSize) =>
              /\ res'[p] = "handle"
              /\ C8_Post(pre[p], key[p])]_vars

\* max_size + 2 calls, all of them gets: two of one key a, one of a key v that is
\* gone again, and one of the key c the worker holds a handle of
C8_Witness ==
    /\ Quiet
    /\ calls = MaxSize + 2
    /\ res[1] = "handle"
    /\ Len(lrucache) = MaxSize
    /\ Count(lrucache, key[1]) = 1
    /\ \E a \in Keys : Count(lrucache, a) = 2
    /\ \E v \in Keys :
           /\ nFetch[v] = 1
           /\ evicted[v]
           /\ v \notin CacheKeys(lrucache)
           /\ dir[v] = "absent"
           /\ lockFile[v] = 0

\* ---- C9 ------------------------------------------------------------------------
\* C9: an evict(k) that finds k in the bad set and not in the usage map leaves k
\* out of the bad set, so that has(k) is false and the next get(k) clones again.
C9_EvictClearsBad ==
    [][\A p \in Procs :
          (/\ pc[p] = "e_trx"
           /\ pc'[p] = "idle"
           /\ key[p] \in badcache
           /\ key[p] \notin CacheKeys(lrucache)) =>
              /\ key[p] \notin badcache'
              /\ ~Has(key[p])']_vars

\* ---- C10 -----------------------------------------------------------------------
\* C10: when an evict(k) that finds k in the usage map ends, k is not in the
\* usage map, neither its directory nor its lock file exists, and has(k) is
\* false (k is in neither set, so the next get(k) clones).
C10_EvictRemoves ==
    [][\A p \in Procs :
          (pc[p] = "e_trx" /\ pc'[p] = "idle" /\ key[p] \in CacheKeys(lrucache)) =>
              /\ key[p] \notin CacheKeys(lrucache')
              /\ dir'[key[p]] = "absent"
              /\ lockFile'[key[p]] = 0
              /\ ~Has(key[p])']_vars

\* ---- C11 -----------------------------------------------------------------------
\* C11: no step of an evict(k), for a key k that is in neither the usage map nor
\* the bad set and has no directory, changes the usage map, the bad set, or the
\* directories and lock files under the base directory.
C11_EvictAbsentNoop ==
    [][\A p \in Procs :
          (/\ pc[p] \in {"e_open", "e_flock", "e_lock", "e_trx"}
           /\ pc'[p] # pc[p]
           /\ ~Has(key[p])
           /\ ~DirExists(key[p])) =>
              UNCHANGED <<lrucache, badcache, dir, lockFile>>]_vars

\* ---- C12 -----------------------------------------------------------------------
\* C12: a get whose clone raised goes on to a write transaction and nowhere
\* else; no step it takes from there changes the usage map, and the step that
\* ends it leaves its key in the bad set, holds no per-key lock and no handle of
\* the lock file, and returns None (NoRepoError from the module-level get).
C12_FetchFailure ==
    [][\A p \in Procs :
          /\ (pc'[p] = "g_lock3bad" /\ pc[p] # pc'[p]) => pc[p] = "g_cloning"
          /\ (pc[p] = "g_lock3bad" /\ pc'[p] # pc[p]) =>
                 pc'[p] = "g_trx3bad" /\ dbWriter' = p /\ lrucache' = lrucache
          /\ (pc[p] = "g_trx3bad" /\ pc'[p] # pc[p]) =>
                 /\ Returns(p, "None")
                 /\ key[p] \in badcache'
                 /\ lrucache' = lrucache
                 /\ ~held'[p]
                 /\ fd'[p] = 0]_vars

\* the only call so far was a get whose clone failed
C12_Witness ==
    /\ calls = 1
    /\ \E p \in Procs :
           /\ pc[p] = "idle"
           /\ res[p] = "None"
           /\ nFetch[key[p]] = 1
           /\ key[p] \in badcache
           /\ key[p] \notin CacheKeys(lrucache)
           /\ dir[key[p]] = "absent"
           /\ ~held[p]

\* ---- C13 -----------------------------------------------------------------------
\* C13: every step that ends a get returns a handle or None (NoRepoError from
\* the module-level get); no get ends with another exception.
C13_OnlyNotFound ==
    [][\A p \in Procs :
          (pc[p] \in {"g_trx1", "g_check", "g_trx2", "g_trx3ok", "g_trx3bad"}
           /\ pc'[p] = "idle") => Answered(res'[p])]_vars

\* ---- C14 -----------------------------------------------------------------------
\* C14: the first transaction of a get(k) that finds k in the bad set ends the
\* get with None; the get has opened no lock file and invoked no clone, and the
\* usage map, the bad set, the directories and the lock files are unchanged,
\* whatever the size of the usage map.
C14_KnownBad ==
    [][\A p \in Procs :
          (pc[p] = "g_trx1" /\ pc'[p] # pc[p] /\ key[p] \in badcache) =>
              /\ Returns(p, "None")
              /\ fd[p] = 0
              /\ ~held[p]
              /\ UNCHANGED <<lrucache, badcache, dir, lockFile, nFetch>>]_vars

\* ---- C15 -----------------------------------------------------------------------
\* a process died while it held the per-key lock of k
DiedLocked(k) ==
    \E p \in Procs :
        key[p] = k /\ res[p] \in {"crashed_locked", "crashed_fetched"}

\* C15: a dead process holds no lock; once a process has died holding the
\* per-key lock of k, every get(k) of another process that waits for the per-key
\* lock acquires it, and every get(k) that was called ends (unless its own
\* process dies).
C15_CrashFreesLock ==
    /\ [](\A p \in Procs : pc[p] = "dead" => ~held[p] /\ fd[p] = 0 /\ dbWriter # p)
    /\ \A q \in Procs :
           /\ (DiedLocked(key[q]) /\ pc[q] = "g_flock") ~>
                  (held[q] \/ pc[q] = "dead")
           /\ (DiedLocked(key[q]) /\ pc[q] = "g_lock1") ~>
                  (pc[q] \in {"idle", "dead"})

\* a process died inside clone_from, under the per-key lock of k, and a get(k)
\* another process called afterwards (that clone never ended, so the directory
\* is as the dead process left it) took the lock and has returned
C15_Witness ==
    \E p, q \in Procs :
        /\ pc[p] = "dead"
        /\ res[p] = "crashed_locked"
        /\ nFetch[key[p]] = 1
        /\ dir[key[p]] = "partial"
        /\ key[q] = key[p]
        /\ pc[q] = "idle"
        /\ res[q] = "handle"

\* ---- C16 -----------------------------------------------------------------------
\* C16: when a process died after its clone of k had returned and before it wrote
\* the index, a later get(k) that finds k missing from the usage map and holds
\* the per-key lock does not return the directory that is there: it goes on to
\* clone.
C16_OrphanRefetched ==
    [][\A p, q \in Procs :
          (/\ res[p] = "crashed_fetched"
           /\ key[q] = key[p]
           /\ pc[q] = "g_check"
           /\ pc'[q] \notin {"g_check", "dead"}
           /\ key[q] \notin CacheKeys(lrucache)
           /\ DirExists(key[q])) => pc'[q] = "g_lock2"]_vars

\* ---- C17 -----------------------------------------------------------------------
\* C17: a step that takes a key out of the bad set is the step that ends an
\* explicit evict of that key; no step of has, of get on any key (its automatic
\* eviction included) or of pool construction removes a key from the bad set.
C17_BadStays ==
    [][\A k \in Keys :
          (k \in badcache /\ k \notin badcache') =>
              \E p \in Procs :
                  pc[p] = "e_trx" /\ key[p] = k /\ pc'[p] = "idle"]_vars

\* one call was made on the warm index, a get that missed, evicted a key
\* automatically and cloned; the bad set still holds its key
C17_Witness ==
    /\ Quiet
    /\ calls = 1
    /\ badcache # {}
    /\ \E p \in Procs :
           /\ res[p] = "handle"
           /\ nFetch[key[p]] = 1
           /\ Count(lrucache, key[p]) = 1
    /\ \E v \in Keys :
           v \notin CacheKeys(lrucache) /\ evicted[v] /\ dir[v] = "absent"

\* ---- C18 -----------------------------------------------------------------------
\* C18: every spelling of the repository of group g and name r (https or
\* SSH-style, any letter case, with or without trailing slashes and a trailing
\* .git) has the digest g+r in lower case, and a has, get or evict called with
\* it runs on that key.
C18_SameKey ==
    \A p \in Procs :
        url[p] \in Spellings =>
            /\ digest(url[p]) = GroupRepo(<<"g">>, <<"r">>)
            /\ pc[p] \notin {"idle", "i_lock", "i_trx"} =>
                   KeyNames[key[p]] = GroupRepo(<<"g">>, <<"r">>)

\* a get called with an SSH-style spelling that has capital letters and a
\* trailing .git has cloned, and the usage map holds the key g+r and no other
C18_Witness ==
    /\ url[1] \in Spellings
    /\ ~startswith(lower(strip(url[1])), <<"h", "t", "t", "p", "s">>)
    /\ lower(url[1]) # url[1]
    /\ endswith(lower(strip(url[1])), <<".", "g", "i", "t">>)
    /\ pc[1] = "idle"
    /\ res[1] = "handle"
    /\ CacheKeys(lrucache) = {KeyOf(GroupRepo(<<"g">>, <<"r">>))}

\* ---- C19 -----------------------------------------------------------------------
\* C19: for a locator with fewer than two path segments the digest is the
\* ValueError, and a worker that passes it to has, get and evict is never inside
\* one of them and leaves the usage map, the bad set and the base directory as
\* they were.
C19_ShortRejected ==
    \A p \in Procs :
        url[p] \in ShortLocators =>
            /\ digest(url[p]) = ValueError
            /\ pc[p] \in {"idle", "i_lock", "i_trx"}
            /\ lrucache = <<>>
            /\ badcache = {}
            /\ \A k \in Keys : dir[k] = "absent" /\ lockFile[k] = 0

\* ---- C20 -----------------------------------------------------------------------
\* C20: a transaction that loads the document the write transaction before it
\* dumped gets the usage map that transaction held at its end, with the same
\* keys in the same order and the same counters, and the same bad set.
C20_RoundTrip ==
    [][\A p \in Procs :
          (pc[p] = "idle" /\ pc'[p] = "t_body" /\ doc # <<>>) =>
              lrucache' = lrucache /\ badcache' = badcache]_vars

\* a transaction has loaded a document with a counter above 1 and two bad keys
C20_Witness ==
    \E p \in Procs :
        /\ pc[p] = "t_body"
        /\ doc # <<>>
        /\ Cardinality(badcache) >= 2
        /\ \E k \in Keys : Count(lrucache, k) >= 2
        /\ lrucache = LoadMap(doc[1])

\* ---- C21 -----------------------------------------------------------------------
\* C21: every step that creates or removes the directory of a key k is taken by
\* a process that runs an operation on k and holds LOCK_EX on a lock file of k.
C21_DirUnderLock ==
    [][\A k \in Keys :
          (DirExists(k) # DirExists(k)') =>
              \E p \in Procs : pc'[p] # pc[p] /\ key[p] = k /\ held[p]]_vars

\* ---- C22 -----------------------------------------------------------------------
\* C22: the key an automatic eviction selects is not one whose clone_from some
\* process is executing.
C22_EvictNotFetching ==
    [][\A p \in Procs :
          (pc[p] = "g_trx1" /\ pc'[p] = "g_open"
           /\ Len(lrucache') < Len(lrucache)) =>
              \A q \in Procs : ~Fetching(q, LeastUsed(lrucache))]_vars

Writers ==
    {p \in Procs :
        pc[p] \in {"g_trx1", "g_trx2", "g_trx3ok", "g_trx3bad", "e_trx", "i_trx"}}

Readers == {p \in Procs : pc[p] = "h_trx"}

\* C24: at most one worker is inside a write transaction, and then none is
\* inside a read transaction; a worker asking for the shared lock while no writer
\* holds the index lock is granted it, whatever readers hold it.
C24_ReadersWriter ==
    /\ Cardinality(Writers) <= 1
    /\ Writers # {} => Readers = {}
    /\ \A p \in Procs :
           (pc[p] = "h_lock" /\ Writers = {}) => ENABLED AcquireRead(p)

\* two has() hold the shared lock together, the second granted while the first
\* held it
C24_Witness ==
    /\ Cardinality(Readers) >= 2
    /\ dbReaders = Readers
    /\ dbWriter = 0

\* ---- C25 -----------------------------------------------------------------------
\* p holds the index lock neither exclusive nor shared
NoIndexLock(p) == dbWriter # p /\ p \notin dbReaders

\* p is about to call or inside clone_from, or opening or waiting for a per-key
\* lock
OffIndex(p) ==
    pc[p] \in {"g_open", "g_flock", "e_open", "e_flock", "g_clone", "g_cloning"}

\* C25: a worker that executes the fetch or waits for a per-key lock holds no
\* index lock; so while workers fetch or wait and the others are idle, a has or
\* a get on another key is granted the index lock at once.
C25_FetchOffIndexLock ==
    /\ \A p \in Procs : OffIndex(p) => NoIndexLock(p)
    /\ \A q \in Procs :
           ((\E p \in Procs : OffIndex(p) /\ key[p] # key[q])
            /\ \A r \in Procs \ {q} : OffIndex(r) \/ pc[r] = "idle") =>
               /\ pc[q] = "h_lock" => ENABLED AcquireRead(q)
               /\ pc[q] = "g_lock1" => ENABLED AcquireWrite(q)

\* while p is inside clone_from, a has or a get on another key is inside its
\* transaction
C25_Witness ==
    \E p, q \in Procs :
        /\ pc[p] = "g_cloning"
        /\ key[q] # key[p]
        /\ \/ pc[q] = "h_trx" /\ q \in dbReaders
           \/ pc[q] = "g_trx1" /\ dbWriter = q

\* ---- C28 -----------------------------------------------------------------------
\* C28: no key is in the usage map and in the bad set at once.
C28_MapBadDisjoint == badcache \cap CacheKeys(lrucache) = {}

\* ---- C30 -----------------------------------------------------------------------
\* the step is one of a get of worker p
GetStepOf(p) ==
    /\ pc[p] \in {"g_lock1", "g_trx1", "g_open", "g_flock", "g_check", "g_lock2",
                  "g_trx2", "g_clone", "g_cloning", "g_lock3ok", "g_lock3bad",
                  "g_trx3ok", "g_trx3bad"}
    /\ pc'[p] # pc[p]

\* the step leaves every key but k alone: its counter, its directory and its
\* lock file; and it leaves k in the usage map if it was there
OthersKept(k) ==
    /\ \A j \in Keys \ {k} :
           /\ Count(lrucache', j) = Count(lrucache, j)
           /\ (j \in CacheKeys(lrucache)) = (j \in CacheKeys(lrucache'))
           /\ dir'[j] = dir[j]
           /\ lockFile'[j] = lockFile[j]
    /\ k \in CacheKeys(lrucache) => k \in CacheKeys(lrucache')

\* C30: a step of a get(k) either leaves all other keys alone (so do all steps
\* of a hit and of a miss below capacity), or it is the first transaction of a
\* get whose key is in neither set, taken with at least max_size keys in the
\* usage map, and it removes exactly one key, with its directory and lock file.
C30_EvictionFrame ==
    [][\A p \in Procs :
          GetStepOf(p) =>
              \/ OthersKept(key[p])
              \/ /\ pc[p] = "g_trx1"
                 /\ key[p] \notin CacheKeys(lrucache) \cup badcache
                 /\ Len(lrucache) >= MaxSize
                 /\ \E v \in CacheKeys(lrucache) \ {key[p]} :
                        /\ CacheKeys(lrucache') = CacheKeys(lrucache) \ {v}
                        /\ dir'[v] = "absent"
                        /\ lockFile'[v] = 0
                        /\ \A j \in Keys \ {v} :
                               /\ Count(lrucache', j) = Count(lrucache, j)
                               /\ dir'[j] = dir[j]
                               /\ lockFile'[j] = lockFile[j]]_vars

\* a get that missed at capacity has just evicted one key, after a hit counted
\* another key twice and misses below capacity filled the usage map
C30_Witness ==
    \E p \in Procs :
        /\ pc[p] = "g_open"
        /\ Len(pre[p]) = MaxSize
        /\ Len(lrucache) = MaxSize - 1
        /\ key[p] \notin CacheKeys(pre[p]) \cup badcache
        /\ \E v \in CacheKeys(pre[p]) :
               v \notin CacheKeys(lrucache) /\ dir[v] = "absent"
        /\ \E a \in CacheKeys(lrucache) : Count(lrucache, a) = 2 /\ dir[a] = "full"

\* ---- C26 -----------------------------------------------------------------------
\* C26: while the index file is not well formed (not JSON, or an object that
\* lacks a member) no transaction gets past its load and no step changes the
\* file.
C26_MalformedAborts ==
    [][(doc # <<>> /\ ~WellFormed(doc[1])) =>
           /\ doc' = doc
           /\ \A p \in Procs : pc'[p] \notin {"w_body", "r_body"}]_vars

\* ---- C27 -----------------------------------------------------------------------
\* C27: a worker whose operation has ended, by return or by exception, holds no
\* lock.
C27_LocksReleased ==
    \A p \in Procs : pc[p] = "idle" => NoIndexLock(p) /\ ~held[p]

\* ---- C29 -----------------------------------------------------------------------
\* C29: while an operation is running some worker can take a step (no
\* deadlock: no worker waits for a per-key lock while it holds the index lock),
\* and every operation a worker has started ends.
C29_Terminates ==
    /\ [](~Quiet => \E p \in Procs : ENABLED ProcStep(p))
    /\ [](\A p \in Procs : pc[p] \in {"g_flock", "e_flock"} => NoIndexLock(p))
    /\ \A p \in Procs : (pc[p] # "idle") ~> (pc[p] = "idle")

\* an evict(k) of one worker and a get(k) of another have both returned, and k
\* was cloned twice
C29_Witness ==
    /\ Quiet
    /\ \E p, q \in Procs :
           /\ p # q
           /\ key[p] = key[q]
           /\ res[p] = "done"
           /\ res[q] \in {"handle", "None"}
           /\ nFetch[key[p]] >= 2

\* ---- C31 -----------------------------------------------------------------------
\* C31: the step that ends a get whose clone failed, after it missed on a usage
\* map at capacity, returns None with the key in the bad set and leaves the
\* usage map the get loaded less one key, whose directory is gone; the get's own
\* key is not in the usage map.
C31_EvictedNotRestored ==
    [][\A p \in Procs :
          (pc[p] = "g_trx3bad" /\ pc'[p] = "idle" /\ AtCapacity(pre[p])) =>
              /\ res'[p] = "None"
              /\ key[p] \in badcache'
              /\ key[p] \notin CacheKeys(lrucache')
              /\ Len(lrucache') = Len(pre[p]) - 1
              /\ \E v \in CacheKeys(pre[p]) :
                     /\ CacheKeys(lrucache') = CacheKeys(pre[p]) \ {v}
                     /\ \A j \in CacheKeys(lrucache') :
                            Count(lrucache', j) = Count(pre[p], j)
                     /\ dir'[v] = "absent"]_vars

\* max_size gets filled the usage map; the get of one more key evicted a key and
\* its clone failed
C31_Witness ==
    /\ Quiet
    /\ calls = MaxSize + 1
    /\ res[1] = "None"
    /\ key[1] \in badcache
    /\ nFetch[key[1]] = 1
    /\ Len(lrucache) = MaxSize - 1
    /\ \E v \in Keys \ {key[1]} :
           /\ evicted[v]
           /\ nFetch[v] = 1
           /\ v \notin CacheKeys(lrucache)
           /\ dir[v] = "absent"

\* ---- C32 -----------------------------------------------------------------------
\* C32: the construction of a FileLock for mode "r" or "w" ends without error
\* with the lock file opened and the requested mode recorded, so that entering
\* the lock asks for LOCK_SH in mode "r" and for LOCK_EX in mode "w".
C32_Constructs ==
    [][\A p \in Procs :
          (pc[p] = "f_init" /\ pc'[p] = "idle") =>
              /\ res'[p] = "FileLock"
              /\ HasAttr(fl'[p].self, "file")
              /\ HasAttr(fl'[p].self, "mode")
              /\ GetAttr(fl'[p].self, "mode") = fl[p].mode
              /\ LockOp(fl'[p].self) =
                     IF fl[p].mode = "r" THEN "LOCK_SH" ELSE "LOCK_EX"]_vars

====
